---- MODULE Spec2Model ----
(***************************************************************************)
(* TSP art tools: the city decoders of TSPBitCity.load (packed P4 bitmap,  *)
(* text P1 bitmap, point file) and the tour renderer                       *)
(* TSPBitCity.write_tspsvg, as state machines over the object's fields and *)
(* the files it reads and writes.                                          *)
(*                                                                         *)
(* Strings are modelled as Python 2 byte strings (the file is opened 'rb', *)
(* and the decoders compare what they read with str literals).  A call's   *)
(* outcome is "True", "False" (the boolean returned) or "raise" (an        *)
(* exception left the call).                                               *)
(***************************************************************************)
EXTENDS Integers, Sequences, FiniteSets, TLC

VARIABLES
    files,          \* the input files on disk: path -> content
    infile,         \* self.infile
    width,          \* self.width
    height,         \* self.height
    coordinates,    \* self.coordinates
    ret,            \* outcome of the last load call
    tour,           \* solution.tour, the tour handed to write_tspsvg
    max_segments,   \* args.max_segments
    file_contents,  \* file_contents chosen from --pre / --mid / --post
    label,          \* whether a layer label (args.layer) is given
    outExists,      \* whether the destination file exists
    written,        \* what the last write_tspsvg call wrote, in order
    svgRet          \* outcome of the last write_tspsvg call

vars == <<files, infile, width, height, coordinates, ret,
          tour, max_segments, file_contents, label, outExists, written, svgRet>>

loadVars == <<files, infile, width, height, coordinates, ret>>
svgVars == <<tour, max_segments, file_contents, label, outExists, written, svgRet>>

-----------------------------------------------------------------------------
(* Program constants *)

BOXSIZE == 800
ByteBits == 8
TopBit == 128
LF == 10

(* Bounds of the model *)

MaxWidth == 2
MaxHeight == 2
MaxBytes == 4
MaxChars == 5
MaxRecords == 2
MaxRaw == 3
MaxTourLen == 3
MaxSegs == 2

-----------------------------------------------------------------------------
(* Helpers *)

Min(a, b) == IF a < b THEN a ELSE b

SeqsUpTo(S, n) == UNION {[1..k -> S] : k \in 0..n}

Range(s) == {s[i] : i \in 1..Len(s)}

-----------------------------------------------------------------------------
(* Packed bitmap (P4) *)

\* nbytes = (self.width + 7) >> 3
NBytes(w) == (w + 7) \div ByteBits

\* f.read(n) at offset pos (0-based): up to n bytes, fewer at end of file
ReadBytes(data, pos, n) == SubSeq(data, pos + 1, Min(pos + n, Len(data)))

\* pixel_mask & column_byte, for a one-bit mask
BitLit(column_byte, pixel_mask) == (column_byte \div pixel_mask) % 2 = 1

\* the sanity check on a row just read
P4RowMissing(row_bytes) == row_bytes = <<>> \/ row_bytes = <<LF>>

\* The loop over the columns of one row.  c is the loop's state:
\* [column, column_byte_index, column_byte, pixel_mask, coords].
RECURSIVE P4Columns(_, _, _, _)
P4Columns(row_bytes, w, row, c) ==
    IF c.column >= w
    THEN [status |-> "ok", coords |-> c.coords]
    ELSE LET coords1 == IF BitLit(c.column_byte, c.pixel_mask)
                        THEN Append(c.coords, <<c.column, row>>)
                        ELSE c.coords
             mask1 == c.pixel_mask \div 2
             idx1 == c.column_byte_index + 1
         IN  IF mask1 # 0
             THEN P4Columns(row_bytes, w, row,
                      [c EXCEPT !.column = @ + 1, !.pixel_mask = mask1,
                                !.coords = coords1])
             ELSE IF idx1 < NBytes(w)
             THEN IF idx1 >= Len(row_bytes)
                  THEN \* row_bytes[column_byte_index]: IndexError on a short row
                       [status |-> "raise", coords |-> coords1]
                  ELSE P4Columns(row_bytes, w, row,
                           [column |-> c.column + 1, column_byte_index |-> idx1,
                            column_byte |-> row_bytes[idx1 + 1],
                            pixel_mask |-> TopBit, coords |-> coords1])
             ELSE IF c.column < w - 1
             THEN [status |-> "False", coords |-> coords1]
             ELSE P4Columns(row_bytes, w, row,
                      [c EXCEPT !.column = @ + 1, !.column_byte_index = idx1,
                                !.pixel_mask = mask1, !.coords = coords1])

\* The loop over the rows, from row h-1 down to row 0.
RECURSIVE P4Rows(_, _, _, _, _)
P4Rows(data, pos, w, row, coords) ==
    IF row < 0
    THEN [status |-> "True", coords |-> coords]
    ELSE LET row_bytes == ReadBytes(data, pos, NBytes(w))
         IN  IF P4RowMissing(row_bytes)
             THEN [status |-> "False", coords |-> coords]
             ELSE LET r == P4Columns(row_bytes, w, row,
                               [column |-> 0, column_byte_index |-> 0,
                                column_byte |-> row_bytes[1],
                                pixel_mask |-> TopBit, coords |-> coords])
                  IN  IF r.status # "ok"
                      THEN r
                      ELSE P4Rows(data, pos + Len(row_bytes), w, row - 1, r.coords)

\* __load_pbm_p4: old is self.coordinates before the call
load_pbm_p4(old, w, h, data) ==
    IF w <= 0 \/ h <= 0
    THEN [status |-> "raise", coords |-> old]
    ELSE P4Rows(data, 0, w, h - 1, <<>>)

-----------------------------------------------------------------------------
(* Text bitmap (P1) *)

Whitespace == {" ", "\n"}

\* for line in f: the text cut after each "\n"; a last line may lack it
RECURSIVE SplitLines(_, _)
SplitLines(text, cur) ==
    IF text = <<>>
    THEN IF cur = <<>> THEN <<>> ELSE <<cur>>
    ELSE IF Head(text) = "\n"
    THEN <<Append(cur, "\n")>> \o SplitLines(Tail(text), <<>>)
    ELSE SplitLines(Tail(text), Append(cur, Head(text)))

RECURSIVE LStrip(_)
LStrip(s) == IF s # <<>> /\ Head(s) \in Whitespace THEN LStrip(Tail(s)) ELSE s

RECURSIVE RStrip(_)
RStrip(s) ==
    IF s # <<>> /\ s[Len(s)] \in Whitespace
    THEN RStrip(SubSeq(s, 1, Len(s) - 1))
    ELSE s

\* line.strip()
Strip(s) == RStrip(LStrip(s))

\* not line or line.startswith('#')
P1Ignored(line) == line = <<>> \/ Head(line) = "#"

\* a decoder that puts each new city in front of the list
P1EmitInFront(coords, column, row) == <<<<column, row>>>> \o coords

\* self.coordinates.append((column, row))
P1Emit(coords, column, row) == Append(coords, <<column, row>>)

\* a final check that looks at the column only
P1FinishedAnyRow(column, row) == column = 0

\* the final sanity check: at the start of row -1
P1Finished(column, row) == column = 0 /\ row = -1

\* The loop over the bytes of one line.  c is [column, row, coords].
RECURSIVE P1Bytes(_, _, _, _)
P1Bytes(line, i, w, c) ==
    IF i > Len(line)
    THEN [status |-> "ok", column |-> c.column, row |-> c.row, coords |-> c.coords]
    ELSE LET each_byte == line[i]
             coords1 == IF each_byte = "1"
                        THEN P1Emit(c.coords, c.column, c.row)
                        ELSE c.coords
         IN  IF each_byte # "1" /\ each_byte # "0"
             THEN [status |-> "False", column |-> c.column, row |-> c.row,
                   coords |-> c.coords]
             ELSE IF c.column + 1 >= w
             THEN P1Bytes(line, i + 1, w,
                          [column |-> 0, row |-> c.row - 1, coords |-> coords1])
             ELSE P1Bytes(line, i + 1, w,
                          [column |-> c.column + 1, row |-> c.row, coords |-> coords1])

\* The loop over the lines of the file.
RECURSIVE P1Lines(_, _, _, _)
P1Lines(lines, k, w, c) ==
    IF k > Len(lines)
    THEN [status |-> IF P1Finished(c.column, c.row) THEN "True" ELSE "False",
          coords |-> c.coords]
    ELSE LET line == Strip(lines[k])
         IN  IF P1Ignored(line)
             THEN P1Lines(lines, k + 1, w, c)
             ELSE IF c.row < 0
             THEN [status |-> "False", coords |-> c.coords]
             ELSE LET r == P1Bytes(line, 1, w, c)
                  IN  IF r.status = "False"
                      THEN [status |-> "False", coords |-> r.coords]
                      ELSE P1Lines(lines, k + 1, w,
                               [column |-> r.column, row |-> r.row,
                                coords |-> r.coords])

\* __load_pbm_p1
load_pbm_p1(old, w, h, text) ==
    IF w <= 0 \/ h <= 0
    THEN [status |-> "raise", coords |-> old]
    ELSE P1Lines(SplitLines(text, <<>>), 1, w,
                 [column |-> 0, row |-> h - 1, coords |-> <<>>])

-----------------------------------------------------------------------------
(* Point file (x y [radius] records) *)

\* int(round(v)) of the non-negative value (d * BOXSIZE) / span, span > 0.
\* The raw values of the model are small integers, for which d * scale never
\* lies within float error of a half, so float and exact rounding agree.
RoundScaled(d, span) == (2 * d * BOXSIZE + span) \div (2 * span)

\* a conversion that cuts the fraction off instead of rounding
NormalizeTruncated(v, fmin, span) ==
    IF span > 0 THEN ((v - fmin) * BOXSIZE) \div span ELSE v - fmin

\* int(round((v - fmin) * scale)) with scale = BOXSIZE / span if span > 0 else 1
Normalize(v, fmin, span) ==
    IF span > 0 THEN RoundScaled(v - fmin, span) ELSE v - fmin

SeqMin(s) == CHOOSE m \in Range(s) : \A v \in Range(s) : m <= v
SeqMax(s) == CHOOSE m \in Range(s) : \A v \in Range(s) : m >= v

\* The first loop: collects px, py.  A line is [comment, nvals, x, y, numeric]:
\* nvals is len(line.strip().split(' ')), x and y the first two values, and
\* numeric whether float() accepts them.
RECURSIVE XyrCollect(_, _, _, _)
XyrCollect(recs, k, px, py) ==
    IF k > Len(recs)
    THEN [status |-> "ok", px |-> px, py |-> py]
    ELSE LET line == recs[k]
         IN  IF line.comment
             THEN XyrCollect(recs, k + 1, px, py)
             ELSE IF line.nvals \notin {2, 3}
             THEN [status |-> "False", px |-> px, py |-> py]
             ELSE IF ~line.numeric
             THEN [status |-> "raise", px |-> px, py |-> py]
             ELSE XyrCollect(recs, k + 1, Append(px, line.x), Append(py, line.y))

\* __load_xyr
load_xyr(recs) ==
    LET c == XyrCollect(recs, 1, <<>>, <<>>)
    IN  IF c.status # "ok"
        THEN [status |-> c.status, coords |-> <<>>]
        ELSE IF c.px = <<>>
        THEN \* min() of an empty list: ValueError
             [status |-> "raise", coords |-> <<>>]
        ELSE LET fmin == Min(SeqMin(c.px), SeqMin(c.py))
                 fmax == LET a == SeqMax(c.px)
                             b == SeqMax(c.py)
                         IN  IF a > b THEN a ELSE b
                 span == fmax - fmin
             IN  [status |-> "True",
                  coords |-> [i \in 1..Len(c.px) |->
                                 <<Normalize(c.px[i], fmin, span),
                                   Normalize(c.py[i], fmin, span)>>]]

-----------------------------------------------------------------------------
(* load *)

\* An input file: the magic number read by f.readline(4), the integers of the
\* dimensions line (PBM), whether the rest of the first line is
\* 'coord y-coord radius' (point file), and what follows: the packed rows
\* (data), the text (text) or the records (recs).
File(magic, dims, hdr, data, text, recs) ==
    [magic |-> magic, dims |-> dims, hdr |-> hdr, data |-> data,
     text |-> text, recs |-> recs]

\* TSPBitCity.load on the object self = [width, height, coordinates]
load(self, f) ==
    IF f.magic \in {"P4", "P1"}
    THEN IF Len(f.dims) # 2
         THEN \* tuple(map(int, line.split())) does not unpack: ValueError
              [ret |-> "raise", width |-> 0, height |-> 0,
               coordinates |-> self.coordinates]
         ELSE LET w == f.dims[1]
                  h == f.dims[2]
              IN  IF w = 0 \/ h = 0
                  THEN [ret |-> "False", width |-> w, height |-> h,
                        coordinates |-> self.coordinates]
                  ELSE LET r == IF f.magic = "P4"
                                THEN load_pbm_p4(self.coordinates, w, h, f.data)
                                ELSE load_pbm_p1(self.coordinates, w, h, f.text)
                       IN  [ret |-> r.status, width |-> w, height |-> h,
                            coordinates |-> r.coords]
    ELSE IF f.magic = "xy"
    THEN IF ~f.hdr
         THEN [ret |-> "False", width |-> self.width, height |-> self.height,
               coordinates |-> self.coordinates]
         ELSE LET r == load_xyr(f.recs)
              IN  [ret |-> r.status, width |-> BOXSIZE, height |-> BOXSIZE,
                   coordinates |-> r.coords]
    ELSE [ret |-> "False", width |-> self.width, height |-> self.height,
          coordinates |-> self.coordinates]

-----------------------------------------------------------------------------
(* The input files of the model *)

\* Row bytes: no pixel, the byte equal to LF, one pixel, pixel runs
ByteVals == {0, LF, TopBit, 192, 255}

Chars == {"0", "1", "#", " ", "\n"}

\* raw coordinates: the small values, and one value far from them
RawVals == (0..MaxRaw) \cup {10}

\* one width whose rows take two bytes
P4Widths == (1..MaxWidth) \cup {ByteBits + 1}

\* dimension lines that stop load before any pixel is read
BadDims ==
    {<<>>, <<1>>} \cup {d \in (-1..1) \X (-1..1) : d[1] <= 0 \/ d[2] <= 0}

BadDimFiles ==
    {File(m, d, FALSE, <<>>, <<>>, <<>>) : m \in {"P4", "P1"}, d \in BadDims}

XyLine(comment, nvals, x, y, numeric) ==
    [comment |-> comment, nvals |-> nvals, x |-> x, y |-> y, numeric |-> numeric]

XyLines ==
    {XyLine(TRUE, 0, 0, 0, TRUE), XyLine(FALSE, 1, 0, 0, TRUE),
     XyLine(FALSE, 4, 0, 0, TRUE), XyLine(FALSE, 2, 0, 0, FALSE)}
    \cup {XyLine(FALSE, 2, x, y, TRUE) : x \in RawVals, y \in RawVals}
    \cup {XyLine(FALSE, 3, x, x, TRUE) : x \in RawVals}

\* a second, well-formed bitmap on disk: 2 x 1, both pixels lit
SeedFile == File("P4", <<2, 1>>, FALSE, <<192>>, <<>>, <<>>)

-----------------------------------------------------------------------------
(* State machine of the decoders *)

NoRender ==
    /\ tour = <<>>
    /\ max_segments = 0
    /\ file_contents = 3
    /\ label = FALSE
    /\ outExists = FALSE
    /\ written = <<>>
    /\ svgRet = "none"

\* the files on disk: the input file f and the second bitmap
OnDisk(f) == files = [a |-> f, b |-> SeedFile]

\* packed files: any of the widths and heights, any row bytes, with fewer,
\* as many or more bytes than the image takes
P4OnDisk ==
    \E w \in P4Widths, h \in 1..MaxHeight, k \in 0..MaxBytes :
        \E data \in [1..k -> ByteVals] :
            OnDisk(File("P4", <<w, h>>, FALSE, data, <<>>, <<>>))

\* text files: any text of up to MaxChars characters after the dimensions
P1OnDisk ==
    \E w \in 1..MaxWidth, h \in 1..MaxHeight, k \in 0..MaxChars :
        \E text \in [1..k -> Chars] :
            OnDisk(File("P1", <<w, h>>, FALSE, <<>>, text, <<>>))

BadDimsOnDisk == \E f \in BadDimFiles : OnDisk(f)

\* point files: up to MaxRecords lines after a good header, or a bad header
XyOnDisk ==
    \/ \E k \in 0..MaxRecords :
           \E recs \in [1..k -> XyLines] :
               OnDisk(File("xy", <<>>, TRUE, <<>>, <<>>, recs))
    \/ OnDisk(File("xy", <<>>, FALSE, <<>>, <<>>, <<>>))

\* a file with an unsupported magic number
OtherOnDisk == OnDisk(File("other", <<>>, FALSE, <<>>, <<>>, <<>>))

\* TSPBitCity(): a fresh object, and the files it may be asked to load
Init ==
    /\ \/ P4OnDisk
       \/ P1OnDisk
       \/ BadDimsOnDisk
       \/ XyOnDisk
       \/ OtherOnDisk
    /\ infile = ""
    /\ width = 0
    /\ height = 0
    /\ coordinates = <<>>
    /\ ret = "none"
    /\ NoRender

\* citymap.load(p)
Load(p) ==
    LET r == load([width |-> width, height |-> height,
                   coordinates |-> coordinates], files[p])
    IN  /\ infile' = p
        /\ width' = r.width
        /\ height' = r.height
        /\ coordinates' = r.coordinates
        /\ ret' = r.ret
        /\ UNCHANGED <<files, svgVars>>

NextLoad == \E p \in DOMAIN files : Load(p)

SpecLoad == Init /\ [][NextLoad]_vars

-----------------------------------------------------------------------------
(* write_tspsvg *)

\* One f.write: the preamble ("pre", height, width), the label line, the
\* '>' line, a path opening with its start point ("m", x, y), one relative
\* move ("d", dx, dy), the end of a path ('"/>'), the end of a closed path
\* (' Z"/>') and the postamble.
Tok(t, a, b) == [t |-> t, a |-> a, b |-> b]

\* A tour entry, and int(city_idx) of it: numeric entries convert to their
\* value, any other entry makes int() raise.
Entry(numeric, value) == [numeric |-> numeric, value |-> value]

\* if max_segments: max_segments += 1
SegmentLimit(m) == IF m # 0 THEN m + 1 ELSE 0

\* (city_index < 0) or (city_index >= max_index)
InvalidIndex(city_index, max_index) == city_index < 0 \/ city_index >= max_index

\* a renderer that returns failure and leaves the file behind
AfterInvalidIndexNoUnlink(out) ==
    [ret |-> "False", exists |-> TRUE, written |-> out]

\* f.close(); os.unlink(outfile); return False
AfterInvalidIndex(out) == [ret |-> "False", exists |-> FALSE, written |-> out]

\* a renderer that draws a move for the first city too
NeverSkips(points) == FALSE

\* if points == 0: continue  (the first city only opens the first path)
SkipsFirstMove(points) == points = 0

\* a renderer that keeps the bottom-up y direction of the cities
MoveUnflipped(last_city, next_city) ==
    Tok("d", next_city[1] - last_city[1], next_city[2] - last_city[2])

\* the relative move ' {:d},{:d}' from last_city to next_city
Move(last_city, next_city) ==
    Tok("d", next_city[1] - last_city[1], (next_city[2] - last_city[2]) * (-1))

\* The loop over the tour.  s is [path, first_path, points, last_city, out];
\* last_city is <<>> for None.
RECURSIVE TourLoop(_, _, _, _, _, _)
TourLoop(coords, h, t, limit, i, s) ==
    IF i > Len(t)
    THEN [status |-> "ok", s |-> s]
    ELSE IF ~t[i].numeric
    THEN [status |-> "raise", s |-> s]
    ELSE IF InvalidIndex(t[i].value, Len(coords))
    THEN [status |-> "invalid", s |-> s]
    ELSE LET city == coords[t[i].value + 1]
             opening == ~s.path
             last0 == IF opening /\ s.last_city = <<>> THEN city ELSE s.last_city
             out0 == IF opening
                     THEN Append(s.out, Tok("m", last0[1], h - last0[2]))
                     ELSE s.out
         IN  IF opening /\ SkipsFirstMove(s.points)
             THEN TourLoop(coords, h, t, limit, i + 1,
                      [s EXCEPT !.path = TRUE, !.last_city = last0, !.out = out0])
             ELSE LET out1 == Append(out0, Move(last0, city))
                      points1 == s.points + 1
                  IN  IF limit # 0 /\ points1 > limit
                      THEN TourLoop(coords, h, t, limit, i + 1,
                               [path |-> FALSE, first_path |-> FALSE, points |-> 1,
                                last_city |-> city,
                                out |-> Append(out1, Tok("end", 0, 0))])
                      ELSE TourLoop(coords, h, t, limit, i + 1,
                               [path |-> TRUE, first_path |-> s.first_path,
                                points |-> points1, last_city |-> city,
                                out |-> out1])

\* a renderer that writes the preamble in every content mode
OpeningWithPreamble(w, h, fc, lab) ==
    <<Tok("pre", h, w)>>
        \o (IF lab THEN <<Tok("label", 0, 0)>> ELSE <<>>)
        \o <<Tok("gt", 0, 0)>>

\* the writes made before the loop
Opening(w, h, fc, lab) ==
    (IF fc % 2 = 1 THEN <<Tok("pre", h, w)>> ELSE <<>>)
        \o (IF lab THEN <<Tok("label", 0, 0)>> ELSE <<>>)
        \o <<Tok("gt", 0, 0)>>

\* a renderer that ends every open path in the same way, loop or not
ClosingPlain(s, fc) ==
    (IF s.path THEN <<Tok("end", 0, 0)>> ELSE <<>>)
        \o (IF (fc \div 2) % 2 = 1 THEN <<Tok("post", 0, 0)>> ELSE <<>>)

\* a renderer that marks every path open at the end as a closed loop
ClosingLoop(s, fc) ==
    (IF s.path THEN <<Tok("zend", 0, 0)>> ELSE <<>>)
        \o (IF (fc \div 2) % 2 = 1 THEN <<Tok("post", 0, 0)>> ELSE <<>>)

\* the writes made after the loop
Closing(s, fc) ==
    (IF s.path
     THEN IF s.first_path THEN <<Tok("zend", 0, 0)>> ELSE <<Tok("end", 0, 0)>>
     ELSE <<>>)
        \o (IF (fc \div 2) % 2 = 1 THEN <<Tok("post", 0, 0)>> ELSE <<>>)

\* write_tspsvg on an object with the given width, height and coordinates;
\* existed tells whether the destination existed before the call.
write_tspsvg(w, h, coords, existed, t, m, fc, lab) ==
    IF m < 0
    THEN [ret |-> "raise", exists |-> existed, written |-> <<>>]
    ELSE LET r == TourLoop(coords, h, t, SegmentLimit(m), 1,
                      [path |-> FALSE, first_path |-> TRUE, points |-> 0,
                       last_city |-> <<>>, out |-> Opening(w, h, fc, lab)])
         IN  IF r.status = "raise"
             THEN \* int(city_idx) raised: nothing closes or removes the file
                  [ret |-> "raise", exists |-> TRUE, written |-> r.s.out]
             ELSE IF r.status = "invalid"
             THEN AfterInvalidIndex(r.s.out)
             ELSE [ret |-> "True", exists |-> TRUE,
                   written |-> r.s.out \o Closing(r.s, fc)]

-----------------------------------------------------------------------------
(* State machine of the renderer *)

\* 3 x 2 packed bitmaps with 0, 1 and 5 lit pixels
SvgBitmaps ==
    {File("P4", <<3, 2>>, FALSE, data, <<>>, <<>>) :
        data \in {<<0, 0>>, <<0, 128>>, <<224, 192>>}}

\* the tour that visits the n cities in registry order
IdentityTour(n) == [i \in 1..n |-> Entry(TRUE, i - 1)]

\* tour entries over n cities: every valid index, the two nearest invalid
\* ones, and an entry that is no integer
Entries(n) == {Entry(TRUE, v) : v \in -1..n} \cup {Entry(FALSE, 0)}

\* longer tours, long enough for several paths, that go back and forth
\* between the first and the last city
LongTours(n) ==
    IF n = 0 THEN {}
    ELSE UNION {[1..k -> {Entry(TRUE, 0), Entry(TRUE, n - 1)}] :
                   k \in (MaxTourLen + 1)..(MaxTourLen + 4)}

Tours(n) ==
    SeqsUpTo(Entries(n), MaxTourLen) \cup {IdentityTour(n)} \cup LongTours(n)

\* After cities.load() of a bitmap and solution.load() of a tour
InitSvg ==
    /\ \E f \in SvgBitmaps : OnDisk(f)
    /\ infile = "a"
    /\ LET r == load([width |-> 0, height |-> 0, coordinates |-> <<>>], files["a"])
       IN  /\ width = r.width
           /\ height = r.height
           /\ coordinates = r.coordinates
           /\ ret = r.ret
    /\ tour \in Tours(Len(coordinates))
    /\ max_segments \in -1..MaxSegs
    /\ file_contents \in 0..3
    /\ label \in BOOLEAN
    /\ outExists \in BOOLEAN
    /\ written = <<>>
    /\ svgRet = "none"

\* cities.write_tspsvg(args.output, solution.tour, args.max_segments, ...)
WriteTspsvg ==
    LET r == write_tspsvg(width, height, coordinates, outExists, tour,
                          max_segments, file_contents, label)
    IN  /\ svgRet' = r.ret
        /\ outExists' = r.exists
        /\ written' = r.written
        /\ UNCHANGED <<loadVars, tour, max_segments, file_contents, label>>

NextSvg == WriteTspsvg

SpecSvg == InitSvg /\ [][NextSvg]_vars

-----------------------------------------------------------------------------
(* Properties of the renderer (SpecSvg) *)

Rendered == svgRet # "none"

CityCount == Len(coordinates)

InRange(e) == e.numeric /\ 0 <= e.value /\ e.value < CityCount

ValidTour == \A i \in 1..Len(tour) : InRange(tour[i])

IsIdentityTour == tour = IdentityTour(CityCount)

\* the positions in the output where a path primitive opens
PathStarts == {i \in 1..Len(written) : written[i].t = "m"}

\* the number of relative moves of the path that opens at position i
DeltasOfPath(i) ==
    Cardinality({j \in (i + 1)..Len(written) :
                    \A k \in (i + 1)..j : written[k].t = "d"})

TotalDeltas == Cardinality({i \in 1..Len(written) : written[i].t = "d"})

\* the path that opens at position i ends with the closed-loop marker
ClosedAsLoop(i) ==
    /\ i + DeltasOfPath(i) + 1 <= Len(written)
    /\ written[i + DeltasOfPath(i) + 1].t = "zend"

HasZ == \E i \in 1..Len(written) : written[i].t = "zend"

CeilDiv(a, b) == (a + b - 1) \div b

\* C1: with a valid tour and maxSegments > 0 no path primitive holds more
\* than maxSegments relative moves.
C1_PathsWithinMaxSegments ==
    (Rendered /\ svgRet = "True" /\ ValidTour /\ max_segments > 0) =>
        \A i \in PathStarts : DeltasOfPath(i) <= max_segments

\* C2: the tour 0..n-1 with 0 < maxSegments = k < n-1 gives ceil((n-1)/k)
\* path primitives, none closed as a loop, with n-1 relative moves in all.
C2_IdentityTourSplit ==
    (Rendered /\ IsIdentityTour /\ 0 < max_segments
              /\ max_segments < CityCount - 1) =>
        /\ svgRet = "True"
        /\ Cardinality(PathStarts) = CeilDiv(CityCount - 1, max_segments)
        /\ ~HasZ
        /\ TotalDeltas = CityCount - 1

\* C3 as stated: the tour 0..n-1 (n >= 1) with maxSegments = 0 gives one
\* path primitive, closed as a loop, with exactly n relative moves.
C3_SingleLoopHasNDeltas ==
    (Rendered /\ IsIdentityTour /\ CityCount >= 1 /\ max_segments = 0) =>
        /\ svgRet = "True"
        /\ Cardinality(PathStarts) = 1
        /\ \A i \in PathStarts : ClosedAsLoop(i)
        /\ TotalDeltas = CityCount

\* C3 amended: the tour 0..n-1 (n >= 1) with maxSegments = 0 gives one
\* path primitive, closed as a loop, with exactly n-1 relative moves (the
\* closing marker stands for the n-th drawn segment, back to the start).
C3_SingleLoopHasNMinus1Deltas ==
    (Rendered /\ IsIdentityTour /\ CityCount >= 1 /\ max_segments = 0) =>
        /\ svgRet = "True"
        /\ Cardinality(PathStarts) = 1
        /\ \A i \in PathStarts : ClosedAsLoop(i)
        /\ TotalDeltas = CityCount - 1

\* the whole registry of five cities drawn as one loop
C3_Witness ==
    /\ Rendered /\ svgRet = "True" /\ IsIdentityTour /\ max_segments = 0
    /\ CityCount >= 2
    /\ TotalDeltas = CityCount - 1
    /\ HasZ

\* the positions of the tour entries that are no index of a city
BadPositions == {i \in 1..Len(tour) : ~InRange(tour[i])}

FirstBad == CHOOSE i \in BadPositions : \A j \in BadPositions : i <= j

\* an integer tour entry outside [0, cityCount) is the first entry
\* write_tspsvg cannot draw
HitsInvalidIndex ==
    /\ Rendered /\ max_segments >= 0
    /\ BadPositions # {}
    /\ tour[FirstBad].numeric

\* C4: at the first index outside [0, cityCount) write_tspsvg stops (no move
\* is written for that entry or a later one), returns failure, and the
\* destination does not exist afterwards.
C4_InvalidIndexRemovesFile ==
    HitsInvalidIndex =>
        /\ svgRet = "False"
        /\ ~outExists
        /\ TotalDeltas = (IF FirstBad >= 2 THEN FirstBad - 2 ELSE 0)

\* an invalid index met in mid-tour, after the preamble and the opening of a
\* path had been written to a destination that now is gone
C4_Witness ==
    /\ HitsInvalidIndex
    /\ svgRet = "False"
    /\ ~outExists
    /\ \E i \in 1..Len(written) : written[i].t = "pre"
    /\ PathStarts # {}
    /\ FirstBad < Len(tour)

\* C5: whenever write_tspsvg fails after opening the destination, by
\* returning failure or by an exception, the destination is gone.
C5_FailedRenderLeavesNoFile ==
    (Rendered /\ max_segments >= 0 /\ svgRet \in {"False", "raise"}) => ~outExists

\* a valid tour too short to hold a segment: empty, or a single city
NoSegmentTour == Rendered /\ max_segments >= 0 /\ ValidTour /\ Len(tour) <= 1

\* C13 as stated: a valid tour that is empty or holds a single city index is
\* rendered successfully and without any path primitive.
C13_NoSegmentsNoPath ==
    NoSegmentTour => (svgRet = "True" /\ PathStarts = {})

\* C13 amended: such a tour is rendered successfully and without any relative
\* move; the empty tour gives no path primitive, the single city gives one
\* path primitive that holds only its start point (x, height - y) and the
\* closed-loop marker.
C13_NoSegmentsBarePath ==
    NoSegmentTour =>
        /\ svgRet = "True"
        /\ TotalDeltas = 0
        /\ Len(tour) = 0 => (PathStarts = {} /\ ~HasZ)
        /\ Len(tour) = 1 =>
               /\ Cardinality(PathStarts) = 1
               /\ \A i \in PathStarts :
                      /\ ClosedAsLoop(i)
                      /\ LET city == coordinates[tour[1].value + 1]
                         IN  written[i] = Tok("m", city[1], height - city[2])

\* a single-city tour rendered as a path primitive without a move
C13_Witness ==
    /\ NoSegmentTour /\ svgRet = "True"
    /\ Len(tour) = 1
    /\ PathStarts # {}
    /\ TotalDeltas = 0

\* the content modes of tspart.py: --mid, --pre, --post and the default
BodyOnly == file_contents = 0
PreambleOnly == file_contents = 1
PostambleOnly == file_contents = 2
Complete == file_contents = 3

PathToks == {"m", "d", "end", "zend"}

\* the positions of the output that hold a write of one of the kinds in T
Positions(T) == {i \in 1..Len(written) : written[i].t \in T}

\* C14 as stated: preamble-only emits the preamble and neither path
\* primitives nor postamble, body-only path primitives and neither preamble
\* nor postamble, postamble-only the postamble and neither preamble nor path
\* primitives, the default all three in that order.  (The '>' line and the
\* label line are not counted as a part here.)
C14_ModeSelectsParts ==
    (Rendered /\ svgRet = "True") =>
        /\ PreambleOnly =>
               /\ Positions({"pre"}) # {}
               /\ Positions(PathToks \cup {"post"}) = {}
        /\ BodyOnly => Positions({"pre", "post"}) = {}
        /\ PostambleOnly =>
               /\ Positions({"post"}) # {}
               /\ Positions(PathToks \cup {"pre"}) = {}
        /\ Complete =>
               /\ Positions({"pre"}) = {1}
               /\ Positions({"post"}) = {Len(written)}

\* C14 amended: the content mode selects the preamble and the postamble
\* only.  Every mode emits the body: the label line if a label is given, the
\* '>' line, and the path primitives of the tour.  Preamble-only and the
\* default put the preamble (with height and width) in front of the body,
\* postamble-only and the default put the postamble after it, and nothing
\* else is emitted.
C14_ModeSelectsPreAndPost ==
    (Rendered /\ svgRet = "True") =>
        LET hasPre == PreambleOnly \/ Complete
            hasPost == PostambleOnly \/ Complete
            first == IF hasPre THEN 2 ELSE 1
            gt == IF label THEN first + 1 ELSE first
            last == IF hasPost THEN Len(written) - 1 ELSE Len(written)
        IN  /\ Positions({"pre"}) = (IF hasPre THEN {1} ELSE {})
            /\ hasPre => written[1] = Tok("pre", height, width)
            /\ Positions({"post"}) = (IF hasPost THEN {Len(written)} ELSE {})
            /\ Positions({"label"}) = (IF label THEN {first} ELSE {})
            /\ Positions({"gt"}) = {gt}
            /\ Positions(PathToks) = (gt + 1)..last
            /\ (PathStarts # {}) <=> (tour # <<>>)

\* a preamble-only render that holds the preamble, a path primitive and no
\* postamble
C14_Witness ==
    /\ Rendered /\ svgRet = "True"
    /\ PreambleOnly
    /\ Positions({"pre"}) = {1}
    /\ PathStarts # {}
    /\ TotalDeltas > 0
    /\ Positions({"post"}) = {}

\* the drawing position (x, height - y) of the city of a tour entry
DrawPos(e) ==
    LET city == coordinates[e.value + 1] IN <<city[1], height - city[2]>>

\* the relative moves of the output, in order
DeltaToks == SelectSeq(written, LAMBDA tok : tok.t = "d")

\* Follows the output from write i on, at position pos (<<>> before the
\* first path): a path start sets the position, a relative move adds to it.
\* seen collects the first start point and the position after every move;
\* ok tells that every later path started where the pen was.
RECURSIVE Walk(_, _, _)
Walk(i, pos, seen) ==
    IF i > Len(written)
    THEN [ok |-> TRUE, seen |-> seen]
    ELSE LET tok == written[i]
         IN  IF tok.t = "m"
             THEN IF pos = <<>>
                  THEN Walk(i + 1, <<tok.a, tok.b>>, <<<<tok.a, tok.b>>>>)
                  ELSE IF pos = <<tok.a, tok.b>>
                  THEN Walk(i + 1, pos, seen)
                  ELSE [ok |-> FALSE, seen |-> seen]
             ELSE IF tok.t = "d"
             THEN IF pos = <<>>
                  THEN [ok |-> FALSE, seen |-> seen]
                  ELSE LET p == <<pos[1] + tok.a, pos[2] + tok.b>>
                       IN  Walk(i + 1, p, Append(seen, p))
             ELSE Walk(i + 1, pos, seen)

\* C15: for a valid tour of n >= 1 entries and maxSegments >= 0 the i-th
\* later entry gives exactly one relative move, from the city of the entry
\* before it and with y flipped; the first path starts at (x, height - y) of
\* the first city, every later path where the path before it ended; and
\* start points plus moves visit the cities of the tour in order, each tour
\* entry once.
C15_PathsTraceTour ==
    (Rendered /\ svgRet = "True" /\ tour # <<>>) =>
        /\ Len(DeltaToks) = Len(tour) - 1
        /\ \A k \in 1..Len(DeltaToks) :
               LET from == coordinates[tour[k].value + 1]
                   to == coordinates[tour[k + 1].value + 1]
               IN  DeltaToks[k] = Tok("d", to[1] - from[1], -(to[2] - from[2]))
        /\ Walk(1, <<>>, <<>>).ok
        /\ Walk(1, <<>>, <<>>).seen = [i \in 1..Len(tour) |-> DrawPos(tour[i])]

\* a tour drawn as three paths or more, the second of which starts at
\* another place than the first
C15_Witness ==
    /\ Rendered /\ svgRet = "True"
    /\ Cardinality(PathStarts) >= 3
    /\ \E i, j \in PathStarts :
           i < j /\ <<written[i].a, written[i].b>> # <<written[j].a, written[j].b>>
    /\ \E k \in 1..Len(DeltaToks) : DeltaToks[k].b # 0

\* the segment limit triggers a split while the tour is consumed: the count
\* of moves, one less than the entries consumed, exceeds the limit in use
SplitTriggered ==
    /\ max_segments > 0
    /\ Len(tour) - 1 > SegmentLimit(max_segments)

\* C16: for a valid tour and maxSegments >= 0 the closed-loop marker is
\* written exactly when the tour is not empty and the segment limit never
\* triggered a split (a split shows as a path ended without the marker); so
\* there is at most one marker, an output with the marker holds exactly one
\* path primitive, and a single path closed out by the limit at the last
\* tour entry carries no marker.
C16_LoopMarkerIffNeverSplit ==
    (Rendered /\ svgRet = "True") =>
        /\ HasZ <=> (tour # <<>> /\ ~SplitTriggered)
        /\ SplitTriggered => Positions({"end"}) # {}
        /\ Cardinality(Positions({"zend"})) <= 1
        /\ HasZ => (Cardinality(PathStarts) = 1 /\ Positions({"end"}) = {})
        /\ (Cardinality(PathStarts) = 1 /\ Positions({"end"}) # {}) => ~HasZ

\* a single path closed out by the limit exactly at the last tour entry,
\* without the marker
C16_Witness ==
    /\ Rendered /\ svgRet = "True"
    /\ SplitTriggered
    /\ Cardinality(PathStarts) = 1
    /\ written[Len(written)].t = "end"
    /\ TotalDeltas = Len(tour) - 1
    /\ ~HasZ

-----------------------------------------------------------------------------
(* Properties of the decoders (SpecLoad) *)

Loaded == ret # "none"

LoadedFile == files[infile]

IsBitmap(f) == f.magic \in {"P4", "P1"}

GoodDims(f) == Len(f.dims) = 2 /\ f.dims[1] > 0 /\ f.dims[2] > 0

\* a packed file that holds exactly height rows of ceil(width / 8) bytes
WellFormedP4(f) ==
    /\ f.magic = "P4"
    /\ GoodDims(f)
    /\ Len(f.data) = f.dims[2] * NBytes(f.dims[1])

\* the pixel at column x of the k-th row of the file (k = 1 is the top row)
PackedPixel(f, k, x) ==
    BitLit(f.data[(k - 1) * NBytes(f.dims[1]) + (x \div ByteBits) + 1],
           2 ^ (ByteBits - 1 - (x % ByteBits)))

\* the text (P1) pixel data of the image a packed file holds, one line per row
TextOfPacked(f) ==
    LET w == f.dims[1]
    IN  [i \in 1..(f.dims[2] * (w + 1)) |->
            LET k == ((i - 1) \div (w + 1)) + 1
                x == (i - 1) % (w + 1)
            IN  IF x = w THEN "\n"
                ELSE IF PackedPixel(f, k, x) THEN "1" ELSE "0"]

\* C6: every well-formed packed bitmap decodes successfully, and to the same
\* city list, in the same order, as the text encoding of the same image.
C6_PackedAndTextAgree ==
    (Loaded /\ WellFormedP4(LoadedFile)) =>
        /\ ret = "True"
        /\ LET t == load_pbm_p1(<<>>, width, height, TextOfPacked(LoadedFile))
           IN  t.status = "True" /\ t.coords = coordinates

\* C7: after a successful bitmap decode consecutive cities never go up in y,
\* and within one y go strictly right in x.
C7_ScanOrder ==
    (Loaded /\ ret = "True" /\ IsBitmap(LoadedFile)) =>
        \A i \in 1..(Len(coordinates) - 1) :
            /\ coordinates[i][2] >= coordinates[i + 1][2]
            /\ coordinates[i][2] = coordinates[i + 1][2]
                   => coordinates[i][1] < coordinates[i + 1][1]

\* a successful text decode with two cities in one row and a third in a lower row
C7_Witness ==
    /\ Loaded /\ ret = "True" /\ LoadedFile.magic = "P1"
    /\ Len(coordinates) >= 3
    /\ \E i \in 1..(Len(coordinates) - 1) :
           coordinates[i][2] = coordinates[i + 1][2]
    /\ \E i \in 1..(Len(coordinates) - 1) :
           coordinates[i][2] > coordinates[i + 1][2]

\* C8: after every successful load every city lies inside the reported
\* width x height box.
C8_CitiesInBox ==
    (Loaded /\ ret = "True") =>
        \A i \in 1..Len(coordinates) :
            /\ 0 <= coordinates[i][1] /\ coordinates[i][1] < width
            /\ 0 <= coordinates[i][2] /\ coordinates[i][2] < height

\* C9: after a load that failed the registry holds no city.
C9_FailedLoadLeavesNoCities ==
    (Loaded /\ ret \in {"False", "raise"}) => coordinates = <<>>

\* the characters of the non-comment, non-blank lines of a text, in order
RECURSIVE SignificantChars(_, _)
SignificantChars(lines, k) ==
    IF k > Len(lines) THEN <<>>
    ELSE LET line == Strip(lines[k])
         IN  (IF P1Ignored(line) THEN <<>> ELSE line)
                 \o SignificantChars(lines, k + 1)

P1Pixels(f) == SignificantChars(SplitLines(f.text, <<>>), 1)

\* C10: a text decode succeeds exactly when the non-comment, non-blank lines
\* hold only '0' and '1' and exactly width x height of them in total.
C10_TextDecodeSucceedsIff ==
    (Loaded /\ LoadedFile.magic = "P1" /\ GoodDims(LoadedFile)) =>
        (ret = "True" <=>
            /\ Range(P1Pixels(LoadedFile)) \subseteq {"0", "1"}
            /\ Len(P1Pixels(LoadedFile)) = width * height)

\* a successful text decode whose lines are not the rows of the image
C10_Witness ==
    /\ Loaded /\ ret = "True" /\ LoadedFile.magic = "P1"
    /\ \E k \in 1..Len(SplitLines(LoadedFile.text, <<>>)) :
           LET line == Strip(SplitLines(LoadedFile.text, <<>>)[k])
           IN  ~P1Ignored(line) /\ Len(line) # width

\* a packed file whose pixel data ends before height rows of ceil(width / 8)
\* bytes, at a row boundary or in the middle of a row
TruncatedP4(f) ==
    /\ f.magic = "P4"
    /\ GoodDims(f)
    /\ Len(f.data) < f.dims[2] * NBytes(f.dims[1])

\* C11: the decode of a truncated packed file returns failure to the caller;
\* it neither reports success nor leaves the call by an exception.
C11_TruncatedP4ReturnsFailure ==
    (Loaded /\ TruncatedP4(LoadedFile)) => ret = "False"

\* the records of a point file: its lines that are no comments
XyRecords(f) == SelectSeq(f.recs, LAMBDA line : ~line.comment)

\* a point file with the expected header whose records all hold two or three
\* numbers, and that holds a record at all
GoodXy(f) ==
    /\ f.magic = "xy" /\ f.hdr
    /\ XyRecords(f) # <<>>
    /\ \A i \in 1..Len(XyRecords(f)) :
           XyRecords(f)[i].nvals \in {2, 3} /\ XyRecords(f)[i].numeric

\* every x and every y of the file, together
AllRaw(f) ==
    {XyRecords(f)[i].x : i \in 1..Len(XyRecords(f))}
        \cup {XyRecords(f)[i].y : i \in 1..Len(XyRecords(f))}

RawMin(f) == CHOOSE m \in AllRaw(f) : \A v \in AllRaw(f) : m <= v
RawMax(f) == CHOOSE m \in AllRaw(f) : \A v \in AllRaw(f) : m >= v

\* n is an integer nearest to num / den (den > 0)
IsNearest(n, num, den) ==
    /\ 2 * den * n - den <= 2 * num
    /\ 2 * num <= 2 * den * n + den

\* n is round((v - min) * scale), scale = BOXSIZE / (max - min) or 1
IsScaled(n, v, mn, mx) ==
    IF mx > mn THEN IsNearest(n, (v - mn) * BOXSIZE, mx - mn) ELSE n = v - mn

\* C12: a well-formed point file decodes successfully (no division by zero
\* when all values are equal), and its i-th record (x, y) becomes the i-th
\* city (round((x - min) * scale), round((y - min) * scale)) for the one min
\* and the one max over all x and y and scale = BOXSIZE / (max - min), or 1
\* if max = min.
C12_PointFileNormalized ==
    (Loaded /\ GoodXy(LoadedFile)) =>
        LET recs == XyRecords(LoadedFile)
            mn == RawMin(LoadedFile)
            mx == RawMax(LoadedFile)
        IN  /\ ret = "True"
            /\ Len(coordinates) = Len(recs)
            /\ \A i \in 1..Len(recs) :
                   /\ IsScaled(coordinates[i][1], recs[i].x, mn, mx)
                   /\ IsScaled(coordinates[i][2], recs[i].y, mn, mx)

\* the records (0,0), (10,10) decoded to the cities (0,0), (800,800)
C12_Witness ==
    /\ Loaded /\ GoodXy(LoadedFile)
    /\ Len(XyRecords(LoadedFile)) = 2
    /\ XyRecords(LoadedFile)[1].x = 0 /\ XyRecords(LoadedFile)[1].y = 0
    /\ XyRecords(LoadedFile)[2].x = 10 /\ XyRecords(LoadedFile)[2].y = 10
    /\ coordinates = <<<<0, 0>>, <<BOXSIZE, BOXSIZE>>>>

====
